---- MODULE Spec2Model ----
(***************************************************************************)
(* sms.py: sending one SMS through an AT modem on a serial device.         *)
(*                                                                         *)
(* The model has two flows of control: the calling flow (main, the         *)
(* AtModem handshake methods, make_command, send) and the listening task   *)
(* that make_command submits to its ThreadPoolExecutor (listen,            *)
(* __configure, __deconfigure).  The device (its terminal attributes, its  *)
(* input queue, the bytes written to it) is the environment.               *)
(*                                                                         *)
(* A Python str or bytes value is a sequence of characters, a character    *)
(* being a one-element TLA+ string; the control characters are written     *)
(* "ESC" (0x1B), "SUB" (0x1A), "CR", "LF", and "xFF" is a byte that is not *)
(* valid UTF-8.  An optional value (None or a str) is a record.            *)
(***************************************************************************)
EXTENDS Integers, Sequences, FiniteSets

(***************************************************************************)
(* Bounds of the model.                                                    *)
(***************************************************************************)
\* The message is made of at most MaxLines lines joined by line feeds.
MaxLines == 3
\* The device emits at most MaxNoise lines that answer no command.
MaxNoise == 1

(***************************************************************************)
(* Program constants.                                                      *)
(***************************************************************************)
\* AtModem.TIMEOUT_DS, deciseconds (VTIME of the configured descriptor).
TIMEOUT_DS == 5
\* Default of make_command's (and listen's) timeout parameter, seconds.
DefaultTimeout == 5

(***************************************************************************)
(* Strings.                                                                *)
(***************************************************************************)
None == [some |-> FALSE, v |-> <<>>]
Some(s) == [some |-> TRUE, v |-> s]

\* Python's x == "literal" for an optional x.
Eq(x, s) == x.some /\ x.v = s

S_AT == <<"A", "T">>
S_ESC == <<"ESC">>
S_CSCS == <<"A", "T", "+", "C", "S", "C", "S", "=", "\"", "G", "S", "M", "\"">>
S_CMGF == <<"A", "T", "+", "C", "M", "G", "F", "=", "1">>
S_CMGS_HEAD == <<"A", "T", "+", "C", "M", "G", "S", "=", "\"">>
S_QUOTE == <<"\"">>
S_OK == <<"O", "K">>
S_PROMPT == <<">">>
S_CMS305 == <<"+", "C", "M", "S", " ", "E", "R", "R", "O", "R", ":", " ", "3", "0", "5">>
S_SUB == <<"SUB">>
S_CRLF == <<"CR", "LF">>
S_OUT == <<">", " ">>
S_IN == <<"<", " ">>

\* The receiver as main hands it to select_receiver: "+48" and nine digits.
phone_number == <<"+", "4", "8", "1", "2", "3", "4", "5", "6", "7", "8", "9">>

WhiteSpace == {" ", "TAB", "LF", "CR"}
Digits == {"0", "1", "2", "3", "4", "5", "6", "7", "8", "9"}
LineBreaks == {"LF", "CR"}

RECURSIVE LStrip(_)
LStrip(s) == IF s # <<>> /\ Head(s) \in WhiteSpace THEN LStrip(Tail(s)) ELSE s

RECURSIVE RStrip(_)
RStrip(s) ==
    IF s # <<>> /\ s[Len(s)] \in WhiteSpace
    THEN RStrip(SubSeq(s, 1, Len(s) - 1))
    ELSE s

\* str.strip()
Strip(s) == RStrip(LStrip(s))

\* bytes.decode(): the text, or UnicodeDecodeError on a byte that is not UTF-8.
Decode(b) ==
    IF \E i \in DOMAIN b : b[i] = "xFF"
    THEN [ok |-> FALSE, text |-> <<>>]
    ELSE [ok |-> TRUE, text |-> b]

\* '{}\r\n'.format(what).encode()
Encode(what) == what \o S_CRLF

\* str.splitlines(keepends=False): s from position i on, cur the line being
\* read; "CR" "LF" is one line break, a final line break opens no new line.
RECURSIVE SplitFrom(_, _, _)
SplitFrom(s, i, cur) ==
    IF i > Len(s)
    THEN IF cur = <<>> THEN <<>> ELSE <<cur>>
    ELSE IF s[i] \in LineBreaks
         THEN LET j == IF s[i] = "CR" /\ i < Len(s) /\ s[i + 1] = "LF"
                       THEN i + 2
                       ELSE i + 1
              IN  <<cur>> \o SplitFrom(s, j, <<>>)
         ELSE SplitFrom(s, i + 1, Append(cur, s[i]))

SplitLines(s) == SplitFrom(s, 1, <<>>)

\* ' '.join(parts) with the separator sep
RECURSIVE Join(_, _)
Join(parts, sep) ==
    IF parts = <<>> THEN <<>>
    ELSE IF Len(parts) = 1 THEN parts[1]
    ELSE parts[1] \o sep \o Join(Tail(parts), sep)

\* The longest run of characters of the class cls in s from position i on:
\* the position after it (the greedy cls* of a regular expression).
RECURSIVE SkipClass(_, _, _)
SkipClass(s, i, cls) ==
    IF i <= Len(s) /\ s[i] \in cls THEN SkipClass(s, i + 1, cls) ELSE i

S_CMGS_ACK == <<"+", "C", "M", "G", "S", ":">>

\* Mutant of SMS_SEND_RESPONSE_RE_match: the response is compared with one
\* acknowledgment instead of being matched against the pattern.
SMS_SEND_RESPONSE_RE_literal(s) ==
    IF s = <<"+", "C", "M", "G", "S", ":", " ", "1">> THEN Len(s) ELSE -1

\* AtModem.SMS_SEND_RESPONSE_RE.match(s) for a str s: the end of the match
\* of [+]CMGS:\s*\d* at the start of s, or -1 for no match (None).
SMS_SEND_RESPONSE_RE_match(s) ==
    IF Len(s) >= Len(S_CMGS_ACK) /\ SubSeq(s, 1, Len(S_CMGS_ACK)) = S_CMGS_ACK
    THEN SkipClass(s, SkipClass(s, Len(S_CMGS_ACK) + 1, WhiteSpace), Digits) - 1
    ELSE -1


(***************************************************************************)
(* Inputs.                                                                 *)
(***************************************************************************)
\* The texts a line of the message argument is drawn from.
LineTexts == {<<"H", "i">>, <<>>}

RECURSIVE SeqsUpTo(_, _)
SeqsUpTo(S, n) ==
    IF n = 0 THEN {<<>>}
    ELSE LET shorter == SeqsUpTo(S, n - 1)
         IN  shorter \cup {Append(q, x) : q \in shorter, x \in S}

\* The message argument of the command line: up to MaxLines lines.
MessageArguments == {Join(ls, <<"LF">>) : ls \in SeqsUpTo(LineTexts, MaxLines)}

\* What the device can put on the line: the bytes of one readline().
L_OK == S_OK \o S_CRLF
L_PROMPT == <<">", " ">>
L_CMS305 == S_CMS305 \o S_CRLF
L_CMGS12 == <<"+", "C", "M", "G", "S", ":", " ", "1", "2", "CR", "LF">>
L_CMGS1 == <<"+", "C", "M", "G", "S", ":", " ", "1", "CR", "LF">>
L_ERROR == <<"E", "R", "R", "O", "R", "CR", "LF">>
L_BLANK == S_CRLF
L_GARBLED == <<"xFF", "CR", "LF">>

\* The lines the modem answers a command with.
DeviceLines ==
    {L_OK, L_PROMPT, L_CMS305, L_CMGS12, L_CMGS1, L_ERROR, L_BLANK, L_GARBLED}

\* The lines the modem sends unasked: the blank line that precedes a result
\* code, and a result code that comes late.
NoiseLines == {L_BLANK, L_OK}

\* Terminal attributes: the fields of termios that __configure touches.
Cooked == [icanon |-> TRUE, echo |-> TRUE, vmin |-> 1, vtime |-> 0]
InitialTermios == {Cooked}

\* Descriptor flags: the one flag __configure touches.
OpenFlags == [nonblock |-> FALSE]

(***************************************************************************)
(* State.                                                                  *)
(***************************************************************************)
VARIABLES
    message_contents,  \* main: message_contents
    pc,                \* calling flow: the call site of make_command, or the end
    mpc,               \* calling flow: position inside make_command
    what,              \* make_command: what
    pending,           \* calling flow: exception in flight, "" for none
    ret,               \* the value make_command returned to the call site
    lines,             \* send_message: lines
    idx,               \* send_message: index of the line being sent
    exit_code,         \* exit status of the process, -1 while it runs
    shown,             \* the step results and fatal messages printed
    log,               \* AtModem.log
    lpc,               \* listening task: position
    remaining,         \* listen: remaining, in units of 1/TIMEOUT_DS tick
    result,            \* listen: result
    lexc,              \* listening task: exception in flight, "" for none
    fd_flags,          \* flags of listen's descriptor
    old_flags,         \* listen: old_flags
    old_ios,           \* listen: old_ios
    new_ios,           \* __configure: new_ios
    tio,               \* device: terminal attributes
    wire,              \* device: what has been written to it
    owed,              \* modem: the last command written is not answered yet
    noise,             \* modem: lines sent that answer no command
    trip,              \* history: the make_command call in progress
    rets               \* history: site and value of each return of make_command

vars ==
    <<message_contents, pc, mpc, what, pending, ret, lines, idx, exit_code,
      shown, log, lpc, remaining, result, lexc, fd_flags, old_flags, old_ios,
      new_ios, tio, wire, owed, noise, trip, rets>>

mainVars == <<message_contents, pc, mpc, what, pending, ret, lines, idx, exit_code, shown>>
listenVars == <<lpc, remaining, result, lexc, fd_flags, old_flags, old_ios, new_ios>>
deviceVars == <<tio, wire, owed, noise>>

NoIos == [icanon |-> FALSE, echo |-> FALSE, vmin |-> 0, vtime |-> 0]

NoTrip == [site |-> "", base |-> 0, tio0 |-> NoIos, configured |-> FALSE]

Init ==
    /\ message_contents \in {Strip(a) : a \in MessageArguments}
    /\ pc = "at1"
    /\ mpc = "call"
    /\ what = <<>>
    /\ pending = ""
    /\ ret = None
    /\ lines = <<>>
    /\ idx = 0
    /\ exit_code = -1
    /\ shown = <<>>
    /\ log = <<>>
    /\ lpc = "idle"
    /\ remaining = 0
    /\ result = None
    /\ lexc = ""
    /\ fd_flags = OpenFlags
    /\ old_flags = OpenFlags
    /\ old_ios = NoIos
    /\ new_ios = NoIos
    /\ tio \in InitialTermios
    /\ wire = <<>>
    /\ owed = FALSE
    /\ noise = 0
    /\ trip = NoTrip
    /\ rets = <<>>

(***************************************************************************)
(* The calling flow: make_command and send.                                *)
(***************************************************************************)
Sites == {"at1", "abort", "at2", "gsm", "text", "receiver", "line", "last"}

\* The argument of make_command at each of its call sites.
Argument(site) ==
    CASE site \in {"at1", "at2"} -> S_AT
      [] site = "abort" -> S_ESC
      [] site = "gsm" -> S_CSCS
      [] site = "text" -> S_CMGF
      [] site = "receiver" -> S_CMGS_HEAD \o phone_number \o S_QUOTE
      [] site = "line" -> lines[idx]
      [] site = "last" -> lines[Len(lines)] \o S_SUB

Last(q) == q[Len(q)]

\* History of one make_command call: its call site, the length of the
\* transcript and the terminal attributes when it began, and whether listen
\* has configured the descriptor.
NewTrip(site) ==
    [site |-> site, base |-> Len(log), tio0 |-> tio, configured |-> FALSE]

\* except Exception in main: print the error, exit(2).
Crash(exception) ==
    /\ pc' = "end"
    /\ mpc' = "none"
    /\ pending' = ""
    /\ exit_code' = 2
    /\ shown' = Append(shown, exception)

\* make_command, lines 115-117: the executor is created, listen submitted
\* to it, and the calling flow sleeps for a second; nothing makes the
\* listening task run, or keeps it from running, in that second.
make_command ==
    /\ pc \in Sites
    /\ mpc = "call"
    /\ what' = Argument(pc)
    /\ mpc' = "send"
    /\ lpc' = "open"
    /\ trip' = NewTrip(pc)
    /\ UNCHANGED rets
    /\ UNCHANGED <<message_contents, pc, pending, ret, lines, idx, exit_code, shown, log>>
    /\ UNCHANGED <<remaining, result, lexc, fd_flags, old_flags, old_ios, new_ios>>
    /\ UNCHANGED deviceVars

\* Mutant of send_append: send writes nothing to the transcript.
send_without_append ==
    /\ mpc = "send"
    /\ mpc' = "write"
    /\ UNCHANGED <<message_contents, pc, what, pending, ret, lines, idx, exit_code, shown>>
    /\ UNCHANGED <<log, trip, rets>>
    /\ UNCHANGED <<lpc, remaining, result, lexc, fd_flags, old_flags, old_ios, new_ios>>
    /\ UNCHANGED <<tio, wire, owed, noise>>

\* send, lines 122-123: the outgoing entry of the transcript.
send_append ==
    /\ mpc = "send"
    /\ log' = Append(log, S_OUT \o what)
    /\ mpc' = "write"
    /\ UNCHANGED <<trip, rets>>
    /\ UNCHANGED <<message_contents, pc, what, pending, ret, lines, idx, exit_code, shown>>
    /\ UNCHANGED listenVars
    /\ UNCHANGED deviceVars

\* send, lines 124-125: the device is opened for writing and the command
\* written to it, or open or write raise OSError.
send_write ==
    /\ mpc = "write"
    /\ \/ /\ wire' = Append(wire, Encode(what))
          /\ owed' = TRUE
          /\ mpc' = "result"
          /\ pending' = pending
       \/ /\ mpc' = "exit"
          /\ pending' = "OSError"
          /\ UNCHANGED <<wire, owed>>
    /\ UNCHANGED <<message_contents, pc, what, ret, lines, idx, exit_code, shown, log, trip, rets>>
    /\ UNCHANGED listenVars
    /\ UNCHANGED <<tio, noise>>

\* The listening task is over and its locals are gone.  What the modem
\* sends from now on answers no command.
ListenerJoined ==
    /\ owed' = FALSE
    /\ lpc' = "idle"
    /\ remaining' = 0
    /\ result' = None
    /\ lexc' = ""
    /\ UNCHANGED <<fd_flags, old_flags, old_ios, new_ios>>

\* make_command, line 119: future_response.result() waits for listen and
\* returns its value or raises its exception; the executor is shut down.
make_command_result ==
    /\ mpc = "result"
    /\ lpc = "done"
    /\ ListenerJoined
    /\ IF lexc = ""
       THEN /\ ret' = result
            /\ mpc' = "returned"
            /\ rets' = Append(rets, [site |-> pc, ret |-> result])
            /\ trip' = NoTrip
            /\ UNCHANGED <<pc, pending, exit_code, shown>>
       ELSE /\ Crash(lexc)
            /\ UNCHANGED <<ret, trip, rets>>
    /\ UNCHANGED <<message_contents, what, lines, idx, log>>
    /\ UNCHANGED <<tio, wire, noise>>

\* Mutant of make_command_exit: the exception of send propagates without
\* waiting for the listening task.
make_command_exit_nowait ==
    /\ mpc = "exit"
    /\ Crash(pending)
    /\ UNCHANGED <<message_contents, what, ret, lines, idx, log, trip, rets>>
    /\ UNCHANGED listenVars
    /\ UNCHANGED deviceVars

\* make_command, line 115 when send raised: leaving the with block waits
\* for listen, then the exception of send propagates.
make_command_exit ==
    /\ mpc = "exit"
    /\ lpc = "done"
    /\ ListenerJoined
    /\ Crash(pending)
    /\ UNCHANGED <<message_contents, what, ret, lines, idx, log, trip, rets>>
    /\ UNCHANGED <<tio, wire, noise>>

(***************************************************************************)
(* The handshake: what each method does with the value make_command        *)
(* returned, and what main does with the method's result.                  *)
(***************************************************************************)
WorksFailure == "Your modem does not seem to be working"
GsmFailure == "Could not switch modem to GSM mode"
TextFailure == "Could not switch modem to Text mode"
ReceiverFailure == "Could not set message receiver number"
ContentFailure == "Could not sent message"

\* Print.result
Print_result(r) == IF r THEN "Ok" ELSE "Failed"

\* Mutant of assure: the failure of a step does not stop the handshake.
assure_proceeds(okay, failure_message, printed, next_pc, next_mpc) ==
    /\ pc' = next_pc
    /\ mpc' = next_mpc
    /\ exit_code' = exit_code
    /\ shown' = Append(shown, printed)

\* assure(what, failure_message) in main, after the method printed its
\* result: the handshake goes on at next_pc, or TerminateApplication is
\* raised, main prints the fatal message (and the transcript) and exit(1).
assure(okay, failure_message, printed, next_pc, next_mpc) ==
    IF okay
    THEN /\ pc' = next_pc
         /\ mpc' = next_mpc
         /\ exit_code' = exit_code
         /\ shown' = Append(shown, printed)
    ELSE /\ pc' = "end"
         /\ mpc' = "none"
         /\ exit_code' = 1
         /\ shown' = shown \o <<printed, failure_message>>

\* __at: make_command('AT') == "OK"
at(r) == Eq(r, S_OK)

\* Mutant of abort: only "OK" is accepted as the response to ESC.
abort_ok_only(r) == r.some /\ r.v = S_OK

\* abort: make_command('\033') in ("OK", "+CMS ERROR: 305")
abort(r) == r.some /\ r.v \in {S_OK, S_CMS305}

\* What the steps below leave alone.
StepFrame ==
    /\ UNCHANGED <<message_contents, what, pending, ret, log, trip, rets>>
    /\ UNCHANGED listenVars
    /\ UNCHANGED deviceVars

\* Mutant of works_at1: the recovery is run whatever the first __at says.
works_at1_recovers ==
    /\ pc = "at1"
    /\ mpc = "returned"
    /\ pc' = "abort"
    /\ mpc' = "call"
    /\ UNCHANGED <<exit_code, shown, lines, idx>>
    /\ StepFrame

\* works, lines 109-110: the first __at.
works_at1 ==
    /\ pc = "at1"
    /\ mpc = "returned"
    /\ IF at(ret)
       THEN assure(TRUE, WorksFailure, "Ok", "gsm", "call")
       ELSE /\ pc' = "abort"
            /\ mpc' = "call"
            /\ UNCHANGED <<exit_code, shown>>
    /\ UNCHANGED <<lines, idx>>
    /\ StepFrame

\* Mutant of works_abort: the second __at is run whatever abort() says.
works_abort_retries ==
    /\ pc = "abort"
    /\ mpc = "returned"
    /\ pc' = "at2"
    /\ mpc' = "call"
    /\ UNCHANGED <<exit_code, shown, lines, idx>>
    /\ StepFrame

\* works, line 112: abort(), the left operand of the and.
works_abort ==
    /\ pc = "abort"
    /\ mpc = "returned"
    /\ IF abort(ret)
       THEN /\ pc' = "at2"
            /\ mpc' = "call"
            /\ UNCHANGED <<exit_code, shown>>
       ELSE assure(FALSE, WorksFailure, "Failed", "gsm", "call")
    /\ UNCHANGED <<lines, idx>>
    /\ StepFrame

\* works, line 112: the second __at, the right operand of the and.
works_at2 ==
    /\ pc = "at2"
    /\ mpc = "returned"
    /\ IF at(ret)
       THEN assure(TRUE, WorksFailure, "Fixed", "gsm", "call")
       ELSE assure(FALSE, WorksFailure, "Failed", "gsm", "call")
    /\ UNCHANGED <<lines, idx>>
    /\ StepFrame

switch_to_gsm ==
    /\ pc = "gsm"
    /\ mpc = "returned"
    /\ assure(Eq(ret, S_OK), GsmFailure, Print_result(Eq(ret, S_OK)), "text", "call")
    /\ UNCHANGED <<lines, idx>>
    /\ StepFrame

switch_to_text_mode ==
    /\ pc = "text"
    /\ mpc = "returned"
    /\ assure(Eq(ret, S_OK), TextFailure, Print_result(Eq(ret, S_OK)), "receiver", "call")
    /\ UNCHANGED <<lines, idx>>
    /\ StepFrame

select_receiver ==
    /\ pc = "receiver"
    /\ mpc = "returned"
    /\ assure(Eq(ret, S_PROMPT), ReceiverFailure, Print_result(Eq(ret, S_PROMPT)),
              "send_message", "entry")
    /\ UNCHANGED <<lines, idx>>
    /\ StepFrame

\* send_message, lines 193-194 and 198: the lines of the content; with more
\* than one line the loop starts, with one line it is the last one, with no
\* line lines[-1] raises IndexError.
send_message ==
    /\ pc = "send_message"
    /\ mpc = "entry"
    /\ lines' = SplitLines(message_contents)
    /\ IF Len(lines') = 0
       THEN /\ Crash("IndexError")
            /\ idx' = idx
       ELSE /\ pc' = IF Len(lines') > 1 THEN "line" ELSE "last"
            /\ mpc' = "call"
            /\ idx' = 1
            /\ UNCHANGED <<pending, exit_code, shown>>
    /\ UNCHANGED <<message_contents, what, ret, log, trip, rets>>
    /\ UNCHANGED listenVars
    /\ UNCHANGED deviceVars

\* Mutant of send_message_line: the next line is sent whatever the response.
send_message_line_unchecked ==
    /\ pc = "line"
    /\ mpc = "returned"
    /\ pc' = IF idx + 1 < Len(lines) THEN "line" ELSE "last"
    /\ mpc' = "call"
    /\ idx' = idx + 1
    /\ UNCHANGED <<exit_code, shown, lines>>
    /\ StepFrame

\* send_message, lines 194-196: one line of lines[:-1] was sent.
send_message_line ==
    /\ pc = "line"
    /\ mpc = "returned"
    /\ IF ~Eq(ret, S_PROMPT)
       THEN /\ assure(FALSE, ContentFailure, "Failed", "line", "call")
            /\ idx' = idx
       ELSE /\ pc' = IF idx + 1 < Len(lines) THEN "line" ELSE "last"
            /\ mpc' = "call"
            /\ idx' = idx + 1
            /\ UNCHANGED <<exit_code, shown>>
    /\ UNCHANGED lines
    /\ StepFrame

\* send_message, line 198: the last line was sent; re.match raises TypeError
\* when the response is None.
send_message_last ==
    /\ pc = "last"
    /\ mpc = "returned"
    /\ IF ~ret.some
       THEN Crash("TypeError")
       ELSE /\ LET matched == SMS_SEND_RESPONSE_RE_match(ret.v) >= 0
               IN  assure(matched, ContentFailure, Print_result(matched), "sent", "none")
            /\ UNCHANGED pending
    /\ UNCHANGED <<message_contents, what, ret, log, trip, rets>>
    /\ UNCHANGED <<lines, idx>>
    /\ UNCHANGED listenVars
    /\ UNCHANGED deviceVars

\* main, lines 281-282, and the end of the process.
main_sent ==
    /\ pc = "sent"
    /\ pc' = "end"
    /\ exit_code' = 0
    /\ shown' = Append(shown, "Message sent.")
    /\ UNCHANGED <<message_contents, mpc, what, pending, ret, lines, idx, log, trip, rets>>
    /\ UNCHANGED listenVars
    /\ UNCHANGED deviceVars

(***************************************************************************)
(* The listening task: listen, __configure, __deconfigure.                 *)
(***************************************************************************)
\* The listening task ends with an exception before its try block: the
\* with block closes the descriptor, the future holds the exception.
ListenRaises(exception) ==
    /\ lexc' = exception
    /\ lpc' = "done"

\* listen, lines 128-132: the countdown, then the device is opened for
\* reading, or open raises OSError.  remaining counts 1/TIMEOUT_DS ticks:
\* seconds * 10 / TIMEOUT_DS ticks are seconds * 10 of them.
listen_open ==
    /\ lpc = "open"
    /\ remaining' = DefaultTimeout * 10
    /\ result' = None
    /\ \/ /\ fd_flags' = OpenFlags
          /\ lpc' = "configure"
          /\ lexc' = lexc
       \/ /\ ListenRaises("OSError")
          /\ fd_flags' = fd_flags
    /\ UNCHANGED <<old_flags, old_ios, new_ios>>
    /\ UNCHANGED mainVars
    /\ UNCHANGED deviceVars
    /\ UNCHANGED <<log, trip, rets>>

\* __configure, lines 158-165: fcntl(fd, F_GETFL), fcntl(fd, F_SETFL,
\* old_flags & ~os.O_NONBLOCK), the two tcgetattr and the changes to new_ios.
\* These calls read and change only what the listening task owns (its
\* descriptor's flags, its saved settings), so they are one step; each of
\* them may raise, and then nothing of the terminal has been changed.
configure_save ==
    /\ lpc = "configure"
    /\ \/ /\ old_flags' = fd_flags
          /\ fd_flags' = [fd_flags EXCEPT !.nonblock = FALSE]
          /\ old_ios' = tio
          /\ new_ios' = [tio EXCEPT !.icanon = FALSE, !.echo = FALSE,
                                    !.vmin = 0, !.vtime = TIMEOUT_DS]
          /\ lpc' = "setattr"
          /\ lexc' = lexc
       \/ /\ \/ ListenRaises("OSError")
             \/ ListenRaises("termios.error")
          /\ UNCHANGED <<fd_flags, old_flags, old_ios, new_ios>>
    /\ UNCHANGED <<remaining, result>>
    /\ UNCHANGED mainVars
    /\ UNCHANGED deviceVars
    /\ UNCHANGED <<log, trip, rets>>

\* __configure, line 166: tcsetattr(fd, TCSAFLUSH, new_ios) sets the
\* attributes and discards the input received and not read: no line that
\* arrived before is there to be read.
configure_tcsetattr ==
    /\ lpc = "setattr"
    /\ \/ /\ tio' = new_ios
          /\ lpc' = "read"
          /\ lexc' = lexc
          /\ trip' = [trip EXCEPT !.configured = TRUE]
       \/ /\ ListenRaises("termios.error")
          /\ UNCHANGED <<tio, trip>>
    /\ UNCHANGED <<remaining, result, fd_flags, old_flags, old_ios, new_ios>>
    /\ UNCHANGED mainVars
    /\ UNCHANGED <<wire, owed, noise, log, rets>>

\* Mutant of Looping: the loop goes on while remaining >= 0.
Looping_inclusive(rem, res) == rem >= 0 /\ ~res.some

\* listen, line 136: the condition of the while loop.
Looping(rem, res) == rem > 0 /\ ~res.some

\* Mutant of read_line: every read consumes a tick, a productive one too.
read_line_always_ticks(rem, line) ==
    LET text == Decode(line)
    IN  IF line # <<>> /\ ~text.ok
        THEN [raised |-> TRUE, result |-> None, remaining |-> rem]
        ELSE IF line # <<>> /\ Len(Strip(text.text)) > 0
        THEN [raised |-> FALSE, result |-> Some(Strip(text.text)),
              remaining |-> rem - TIMEOUT_DS]
        ELSE [raised |-> FALSE, result |-> None, remaining |-> rem - TIMEOUT_DS]

\* listen, lines 139-145: the body of the loop, for the bytes readline
\* returned (b'' when VTIME passed with nothing received): whether decode
\* raised UnicodeDecodeError, and result and remaining after it.
read_line(rem, line) ==
    LET text == Decode(line)
    IN  IF line # <<>> /\ ~text.ok
        THEN [raised |-> TRUE, result |-> None, remaining |-> rem]
        ELSE IF line # <<>> /\ Len(Strip(text.text)) > 0
        THEN [raised |-> FALSE, result |-> Some(Strip(text.text)), remaining |-> rem]
        ELSE [raised |-> FALSE, result |-> None, remaining |-> rem - TIMEOUT_DS]

\* Mutant of listen_line: the loop is not in a try block, and an exception
\* of decode ends listen at once.
listen_line_unprotected(line) ==
    LET after == read_line(remaining, line)
    IN  IF after.raised
        THEN /\ lexc' = "UnicodeDecodeError"
             /\ lpc' = "done"
             /\ remaining' = 0
             /\ UNCHANGED <<result, log, trip>>
        ELSE IF after.result.some
        THEN /\ result' = after.result
             /\ log' = Append(log, S_IN \o after.result.v)
             /\ trip' = trip
             /\ lpc' = "restore_fl"
             /\ remaining' = 0
             /\ lexc' = lexc
        ELSE /\ remaining' = after.remaining
             /\ lpc' = IF Looping(remaining', result) THEN "read" ELSE "restore_fl"
             /\ UNCHANGED <<result, lexc, log, trip>>

\* Mutant of listen_line: the line that becomes the result is not entered
\* in the transcript.
listen_line_unlogged(line) ==
    LET after == read_line(remaining, line)
    IN  IF after.raised
        THEN /\ lexc' = "UnicodeDecodeError"
             /\ lpc' = "restore_fl"
             /\ remaining' = 0
             /\ UNCHANGED <<result, log, trip>>
        ELSE IF after.result.some
        THEN /\ result' = after.result
             /\ lpc' = "restore_fl"
             /\ remaining' = 0
             /\ UNCHANGED <<lexc, log, trip>>
        ELSE /\ remaining' = after.remaining
             /\ lpc' = IF Looping(remaining', result) THEN "read" ELSE "restore_fl"
             /\ UNCHANGED <<result, lexc, log, trip>>

\* listen, lines 136-147: one turn of the loop on the bytes readline
\* returned; the transcript gets the line that becomes the result (line
\* 141).  When the loop is over, or an exception is in flight, the finally
\* block is next; remaining is not read again once the loop is left with a
\* line or an exception, and the model forgets it there.
listen_line(line) ==
    LET after == read_line(remaining, line)
    IN  IF after.raised
        THEN /\ lexc' = "UnicodeDecodeError"
             /\ lpc' = "restore_fl"
             /\ remaining' = 0
             /\ UNCHANGED <<result, log, trip>>
        ELSE IF after.result.some
        THEN /\ result' = after.result
             /\ log' = Append(log, S_IN \o after.result.v)
             /\ trip' = trip
             /\ lpc' = "restore_fl"
             /\ remaining' = 0
             /\ lexc' = lexc
        ELSE /\ remaining' = after.remaining
             /\ lpc' = IF Looping(remaining', result) THEN "read" ELSE "restore_fl"
             /\ UNCHANGED <<result, lexc, log, trip>>

\* listen, lines 136-137: the loop goes on and readline() returns the line
\* the modem sent in answer to the last command written, or a line that
\* answers no command, or nothing, or it raises OSError.
listen_read ==
    /\ lpc = "read"
    /\ Looping(remaining, result)
    /\ \/ /\ owed
          /\ owed' = FALSE
          /\ \E l \in DeviceLines : listen_line(l)
          /\ UNCHANGED noise
       \/ /\ noise < MaxNoise
          /\ noise' = noise + 1
          /\ \E l \in NoiseLines : listen_line(l)
          /\ UNCHANGED owed
       \/ /\ listen_line(<<>>)
          /\ UNCHANGED <<owed, noise>>
       \/ /\ lexc' = "OSError"
          /\ lpc' = "restore_fl"
          /\ remaining' = 0
          /\ UNCHANGED <<result, log, trip, owed, noise>>
    /\ UNCHANGED <<fd_flags, old_flags, old_ios, new_ios>>
    /\ UNCHANGED mainVars
    /\ UNCHANGED <<tio, wire, rets>>

\* __deconfigure, line 153: fcntl(fd, F_SETFL, old_flags).
deconfigure_setfl ==
    /\ lpc = "restore_fl"
    /\ \/ /\ fd_flags' = old_flags
          /\ lpc' = "restore_attr"
          /\ lexc' = lexc
       \/ /\ ListenRaises("OSError")
          /\ fd_flags' = fd_flags
    /\ UNCHANGED <<remaining, result, old_flags, old_ios, new_ios>>
    /\ UNCHANGED mainVars
    /\ UNCHANGED deviceVars
    /\ UNCHANGED <<log, trip, rets>>

\* __deconfigure, line 154: tcsetattr(fd, TCSAFLUSH, old_ios); then listen
\* returns result (line 149) or the exception of the loop propagates.
deconfigure_tcsetattr ==
    /\ lpc = "restore_attr"
    /\ \/ /\ tio' = old_ios
          /\ lpc' = "done"
          /\ lexc' = lexc
       \/ /\ ListenRaises("termios.error")
          /\ UNCHANGED tio
    /\ UNCHANGED <<remaining, result, fd_flags, old_flags, old_ios, new_ios>>
    /\ UNCHANGED mainVars
    /\ UNCHANGED <<wire, owed, noise, log, trip, rets>>

(***************************************************************************)
(* The specification.                                                      *)
(***************************************************************************)
Next ==
    \/ make_command
    \/ send_append
    \/ send_write
    \/ make_command_result
    \/ make_command_exit
    \/ works_at1
    \/ works_abort
    \/ works_at2
    \/ switch_to_gsm
    \/ switch_to_text_mode
    \/ select_receiver
    \/ send_message
    \/ send_message_line
    \/ send_message_last
    \/ main_sent
    \/ listen_open
    \/ configure_save
    \/ configure_tcsetattr
    \/ listen_read
    \/ deconfigure_setfl
    \/ deconfigure_tcsetattr

Spec == Init /\ [][Next]_vars

(***************************************************************************)
(* readline with input that has no line terminator.  readline (line 137)   *)
(* reads from the descriptor until it has a line terminator or a read      *)
(* returns nothing; with VMIN = 0 a read returns nothing only when VTIME    *)
(* passed with no byte received.  While the modem keeps sending bytes with  *)
(* no terminator among them, readline collects them and does not return.    *)
(* For what the program does with a line once readline has returned it, a   *)
(* line collected in several reads is a line like any other, which          *)
(* listen_read covers; the collecting itself matters to termination only,   *)
(* and is part of the specification with fairness.                         *)
(***************************************************************************)
\* listen, line 137: a read inside readline returned bytes with no line
\* terminator; readline keeps them and reads again.
readline_fill ==
    /\ lpc = "read"
    /\ Looping(remaining, result)
    /\ owed \/ noise < MaxNoise
    /\ lpc' = "readline"
    /\ UNCHANGED <<remaining, result, lexc, fd_flags, old_flags, old_ios, new_ios>>
    /\ UNCHANGED mainVars
    /\ UNCHANGED deviceVars
    /\ UNCHANGED <<log, trip, rets>>

\* listen, lines 137-145: the modem sent a line terminator, or nothing for
\* VTIME, and readline returns what it has collected; or a read raises
\* OSError.  This happens when the modem stops sending, not before.
readline_return ==
    /\ lpc = "readline"
    /\ \/ /\ owed
          /\ owed' = FALSE
          /\ \E l \in DeviceLines \ {L_BLANK} : listen_line(l)
          /\ UNCHANGED noise
       \/ /\ noise < MaxNoise
          /\ noise' = noise + 1
          /\ \E l \in NoiseLines \ {L_BLANK} : listen_line(l)
          /\ UNCHANGED owed
       \/ /\ lexc' = "OSError"
          /\ lpc' = "restore_fl"
          /\ remaining' = 0
          /\ UNCHANGED <<result, log, trip, owed, noise>>
    /\ UNCHANGED <<fd_flags, old_flags, old_ios, new_ios>>
    /\ UNCHANGED mainVars
    /\ UNCHANGED <<tio, wire, rets>>

LiveNext ==
    \/ Next
    \/ readline_fill
    \/ readline_return

\* Both flows of control are threads of one process and the operating
\* system runs each of them; every system call of the model returns in
\* bounded time (a read of the configured descriptor within VTIME).  When
\* readline returns while bytes keep arriving is up to the modem: nothing
\* in the program makes readline_return happen.
Fairness == WF_vars(Next)

LiveSpec == Init /\ [][LiveNext]_vars /\ Fairness

(***************************************************************************)
(* Properties.                                                             *)
(***************************************************************************)
\* The entries the transcript gained in the make_command call in progress.
TripEntries == SubSeq(log, trip.base + 1, Len(log))

IsOutgoing(e) == SubSeq(e, 1, 2) = <<">", " ">>
IsIncoming(e) == SubSeq(e, 1, 2) = <<"<", " ">>

\* C1: within one make_command call, listen has opened and configured the
\* read descriptor before send writes the command to the device: every step
\* that writes to the device is taken with the descriptor configured.
C1_ArmedBeforeWrite == [][Len(wire') > Len(wire) => trip.configured]_vars

\* C2: in the transcript, the outgoing entry of a make_command call comes
\* before any incoming entry of the same call.
C2_OutgoingBeforeIncoming ==
    \A i \in DOMAIN TripEntries :
        IsIncoming(TripEntries[i]) =>
            \E j \in 1..(i - 1) : IsOutgoing(TripEntries[j])

\* C3: when a listen call has ended, by return or by exception, the flags of
\* its descriptor and the terminal attributes of the device are what they
\* were before the call.
C3_RestoredAfterListen ==
    lpc = "done" => (tio = trip.tio0 /\ fd_flags = OpenFlags)

\* The fatal condition of the step that a call site of make_command is in.
FailureOf(site) ==
    CASE site \in {"at1", "abort", "at2"} -> WorksFailure
      [] site = "gsm" -> GsmFailure
      [] site = "text" -> TextFailure
      [] site = "receiver" -> ReceiverFailure
      [] site \in {"line", "last"} -> ContentFailure

\* The step has dealt with the last value that make_command returned.
Consumed == rets # <<>> /\ trip = NoTrip /\ mpc # "returned"

\* C4: a make_command that returned None makes its step fail: after the
\* first AT the recovery follows, at any other step the run ends with the
\* fatal condition of the step and exit status 1.
C4_TimeoutFailsStep ==
    (Consumed /\ ~Last(rets).ret.some) =>
        IF Last(rets).site = "at1"
        THEN pc = "abort"
        ELSE /\ pc = "end"
             /\ exit_code = 1
             /\ Last(shown) = FailureOf(Last(rets).site)

\* What the handshake table asks of the response at each call site.
StepSucceeds(site, r) ==
    CASE site \in {"at1", "at2", "gsm", "text"} -> r = Some(S_OK)
      [] site = "abort" -> r \in {Some(S_OK), Some(S_CMS305)}
      [] site \in {"receiver", "line"} -> r = Some(S_PROMPT)
      [] site = "last" ->
           /\ r.some
           /\ Len(r.v) >= 6
           /\ SubSeq(r.v, 1, 6) = <<"+", "C", "M", "G", "S", ":">>
           /\ \E i \in 6..Len(r.v) : \E j \in i..Len(r.v) :
                 /\ \A k \in 7..i : r.v[k] \in WhiteSpace
                 /\ \A k \in (i + 1)..j : r.v[k] \in Digits

\* What works printed: "Ok", "Fixed", "Failed", or "" when it has not
\* returned.
WorksPrinted ==
    IF shown # <<>> /\ shown[1] \in {"Ok", "Fixed", "Failed"} THEN shown[1] ELSE ""

\* C5: when the response to the first AT is "OK", works reports success and
\* neither ESC nor a second AT is ever sent.
C5_FirstAtOkSkipsRecovery ==
    (rets # <<>> /\ rets[1].ret = Some(S_OK)) =>
        /\ pc \notin {"abort", "at2"}
        /\ trip.site \notin {"abort", "at2"}
        /\ \A i \in DOMAIN rets : rets[i].site \notin {"abort", "at2"}
        /\ \A i \in DOMAIN wire :
              /\ wire[i] # <<"ESC", "CR", "LF">>
              /\ i > 1 => wire[i] # <<"A", "T", "CR", "LF">>
        /\ \/ pc = "at1" /\ mpc = "returned"
           \/ WorksPrinted = "Ok"

C5_Witness ==
    /\ Len(rets) >= 2
    /\ rets[1].ret = Some(S_OK)
    /\ rets[2].site = "gsm"
    /\ Len(wire) >= 2

\* C6: when the response to the first AT is not "OK", works reports "Fixed"
\* exactly when the response to ESC is "OK" or "+CMS ERROR: 305" and the
\* response to the second AT is "OK"; when one of the two is not, works
\* returns false and the run ends with the fatal condition of the liveness
\* step.
C6_RecoveryDecidesWorks ==
    (rets # <<>> /\ rets[1].ret # Some(S_OK)) =>
        LET escDone == Len(rets) >= 2 /\ ~(pc = "abort" /\ mpc = "returned")
            escOk == Len(rets) >= 2 /\ rets[2].ret \in {Some(S_OK), Some(S_CMS305)}
            atDone == Len(rets) >= 3 /\ ~(pc = "at2" /\ mpc = "returned")
            atOk == Len(rets) >= 3 /\ rets[3].ret = Some(S_OK)
        IN  /\ Len(rets) >= 2 => rets[2].site = "abort"
            /\ Len(rets) >= 3 => (rets[3].site = "at2" /\ escOk)
            /\ WorksPrinted # "Ok"
            /\ WorksPrinted = "Fixed" <=> (escOk /\ atDone /\ atOk)
            /\ WorksPrinted = "Failed" <=> ((escDone /\ ~escOk) \/ (atDone /\ ~atOk))
            /\ WorksPrinted = "Failed" =>
                  /\ pc = "end"
                  /\ exit_code = 1
                  /\ shown = <<"Failed", WorksFailure>>
            /\ WorksPrinted = "Fixed" => pc \notin {"at1", "abort", "at2"}

C6_Witness ==
    /\ Len(rets) >= 3
    /\ rets[1].ret = None
    /\ rets[2].ret = Some(S_CMS305)
    /\ WorksPrinted = "Fixed"
    /\ pc = "gsm"

\* The call sites of all make_command calls so far, in order.
SitesSoFar ==
    [i \in 1..Len(rets) |-> rets[i].site]
        \o (IF trip = NoTrip THEN <<>> ELSE <<trip.site>>)

\* The call sites that follow a call site whose step succeeded.
NextSites(site) ==
    CASE site \in {"at1", "at2"} -> {"gsm"}
      [] site = "abort" -> {"at2"}
      [] site = "gsm" -> {"text"}
      [] site = "text" -> {"receiver"}
      [] site \in {"receiver", "line"} -> {"line", "last"}
      [] site = "last" -> {}

\* C7: the handshake is sequential and gated: a command is sent only when
\* the step before it succeeded (the recovery, ESC, only when the first AT
\* failed), no command is sent after a failed step, and "Message sent." is
\* printed only when the predicate of every step held.
C7_Gated ==
    LET sites == SitesSoFar
    IN  /\ Len(rets) <= Len(wire)
        /\ Len(wire) <= Len(sites)
        /\ sites # <<>> => sites[1] = "at1"
        /\ \A i \in 1..(Len(sites) - 1) :
              IF StepSucceeds(sites[i], rets[i].ret)
              THEN sites[i + 1] \in NextSites(sites[i])
              ELSE sites[i] = "at1" /\ sites[i + 1] = "abort"
        /\ (\E i \in DOMAIN shown : shown[i] = "Message sent.") =>
              /\ \A i \in DOMAIN rets :
                    StepSucceeds(rets[i].site, rets[i].ret) \/ rets[i].site = "at1"
              /\ \A s \in {"gsm", "text", "receiver", "last"} :
                    \E i \in DOMAIN rets : rets[i].site = s

C7_Witness ==
    /\ pc = "end"
    /\ exit_code = 1
    /\ Last(rets).site = "text"
    /\ Last(rets).ret = Some(<<"E", "R", "R", "O", "R">>)
    /\ Len(wire) = Len(rets)

\* C8: for a message of n >= 1 lines, after the receiver is selected the
\* commands sent are the lines 1..n-1 in order, each only after ">" was the
\* response to the one before; a response other than ">" ends the step with
\* failure and nothing more is sent; the last line is sent with Ctrl-Z, once.
C8_ContentLines ==
    LET L == SplitLines(message_contents)
        n == Len(L)
        R == {i \in DOMAIN rets : rets[i].site = "receiver" /\ rets[i].ret = Some(S_PROMPT)}
    IN  (n >= 1 /\ R # {}) =>
            LET r0 == CHOOSE i \in R : TRUE
            IN  /\ Len(wire) <= r0 + n
                /\ \A k \in 1..(Len(wire) - r0) :
                      /\ wire[r0 + k] = (IF k < n THEN L[k] ELSE L[n] \o <<"SUB">>) \o <<"CR", "LF">>
                      /\ \A j \in 1..(k - 1) : rets[r0 + j].ret = Some(S_PROMPT)
                /\ \A j \in 1..(n - 1) :
                      ( /\ r0 + j <= Len(rets)
                        /\ rets[r0 + j].ret # Some(S_PROMPT)
                        /\ ~(pc = "line" /\ mpc = "returned") ) =>
                          /\ pc = "end"
                          /\ exit_code = 1
                          /\ Last(shown) = ContentFailure
                          /\ Len(wire) = r0 + j
                /\ ( \/ pc = "last" /\ mpc \in {"result", "returned"}
                     \/ pc = "sent"
                     \/ exit_code = 0 ) =>
                          /\ Len(wire) = r0 + n
                          /\ \A j \in 1..(n - 1) : rets[r0 + j].ret = Some(S_PROMPT)

C8_Witness ==
    /\ Len(SplitLines(message_contents)) = 3
    /\ SplitLines(message_contents)[1] # SplitLines(message_contents)[2]
    /\ exit_code = 0
    /\ Len(wire) = 7

S_CMGS12 == <<"+", "C", "M", "G", "S", ":", " ", "1", "2">>
S_CMGS1 == <<"+", "C", "M", "G", "S", ":", " ", "1">>
S_ERROR == <<"E", "R", "R", "O", "R">>

\* C9: the step of the last line succeeds exactly when the response starts
\* with "+CMGS:", optional white space and optional digits: then
\* send_message returns true and the run goes on to "Message sent.";
\* otherwise it returns false and the run ends with the fatal condition of
\* the content step.  "+CMGS: 12" is of the first kind, "ERROR" is not.
C9_TerminationPredicate ==
    /\ StepSucceeds("last", Some(S_CMGS12))
    /\ ~StepSucceeds("last", Some(S_ERROR))
    /\ (Consumed /\ Last(rets).site = "last" /\ Last(rets).ret.some) =>
          IF StepSucceeds("last", Last(rets).ret)
          THEN \/ pc = "sent" /\ exit_code = -1 /\ Last(shown) = "Ok"
               \/ pc = "end" /\ exit_code = 0 /\ Last(shown) = "Message sent."
          ELSE /\ pc = "end"
               /\ exit_code = 1
               /\ Len(shown) >= 2
               /\ shown[Len(shown) - 1] = "Failed"
               /\ Last(shown) = ContentFailure

C9_Witness ==
    /\ Consumed
    /\ Last(rets) = [site |-> "last", ret |-> Some(S_CMGS12)]
    /\ exit_code = 0

\* The transcript of the exchange of C10.
C10_Transcript ==
    << S_OUT \o S_AT, S_IN \o S_OK,
       S_OUT \o S_CSCS, S_IN \o S_OK,
       S_OUT \o S_CMGF, S_IN \o S_OK,
       S_OUT \o S_CMGS_HEAD \o phone_number \o S_QUOTE, S_IN \o S_PROMPT,
       S_OUT \o <<"H", "i", "SUB">>, S_IN \o S_CMGS1 >>

\* The modem has answered OK, OK, OK, > and +CMGS: 1 to the five commands
\* of the message "Hi", and has sent nothing else.
C10_Exchange ==
    /\ message_contents = <<"H", "i">>
    /\ noise = 0
    /\ rets = << [site |-> "at1", ret |-> Some(S_OK)],
                 [site |-> "gsm", ret |-> Some(S_OK)],
                 [site |-> "text", ret |-> Some(S_OK)],
                 [site |-> "receiver", ret |-> Some(S_PROMPT)],
                 [site |-> "last", ret |-> Some(S_CMGS1)] >>

\* C10: after that exchange the run reports full success, and the
\* transcript has ten entries, outgoing and incoming in turn.
C10_EndToEnd ==
    C10_Exchange =>
        /\ log = C10_Transcript
        /\ Len(log) = 10
        /\ \A i \in 1..10 : IF i % 2 = 1 THEN IsOutgoing(log[i]) ELSE IsIncoming(log[i])
        /\ wire = << S_AT \o S_CRLF, S_CSCS \o S_CRLF, S_CMGF \o S_CRLF,
                     S_CMGS_HEAD \o phone_number \o S_QUOTE \o S_CRLF,
                     <<"H", "i", "SUB", "CR", "LF">> >>
        /\ \/ pc = "last" /\ mpc = "returned"
           \/ pc = "sent" /\ Last(shown) = "Ok"
           \/ pc = "end" /\ exit_code = 0 /\ Last(shown) = "Message sent."

C10_Witness ==
    /\ C10_Exchange
    /\ pc = "end"
    /\ exit_code = 0
    /\ log = C10_Transcript

\* The modem answered neither the first AT nor ESC: both make_command calls
\* returned None.
C11_NoReply ==
    /\ Len(rets) >= 2
    /\ rets[1] = [site |-> "at1", ret |-> None]
    /\ rets[2] = [site |-> "abort", ret |-> None]

\* C11: when neither the first AT nor ESC is answered, the run ends at the
\* liveness step with exit status 1, the second AT is never sent, and the
\* transcript is the two outgoing entries of AT and ESC, with no incoming
\* entry.
C11_SilentModemAborts ==
    C11_NoReply =>
        /\ Len(rets) = 2
        /\ trip = NoTrip
        /\ log = <<S_OUT \o S_AT, S_OUT \o S_ESC>>
        /\ \A i \in DOMAIN log : IsOutgoing(log[i]) /\ ~IsIncoming(log[i])
        /\ wire = <<S_AT \o S_CRLF, S_ESC \o S_CRLF>>
        /\ \/ pc = "abort" /\ mpc = "returned" /\ exit_code = -1
           \/ /\ pc = "end"
              /\ exit_code = 1
              /\ shown = <<"Failed", WorksFailure>>

C11_Witness ==
    /\ C11_NoReply
    /\ pc = "end"
    /\ exit_code = 1
    /\ Len(log) = 2

\* ceil(T * 10 / TIMEOUT_DS) for the T of every listen of the program.
C12_Ticks == (DefaultTimeout * 10 + TIMEOUT_DS - 1) \div TIMEOUT_DS

\* The reads that have consumed a tick when remaining is rem.
C12_Consumed(rem) == (DefaultTimeout * 10 - rem) \div TIMEOUT_DS

\* A step of the read loop in which readline gave no line to return: the
\* transcript and the exception in flight are as before.
C12_NonProductiveRead ==
    /\ lpc = "read"
    /\ remaining' # remaining \/ lpc' # lpc
    /\ log' = log
    /\ lexc' = lexc

\* C12: listen enters its read loop with no tick consumed, every read that
\* returns no line consumes exactly one tick, and the loop is left with None
\* exactly at the read that consumes tick ceil(T * 10 / TIMEOUT_DS): on a
\* silent device that many reads, no fewer and no more.
C12_SilentListenTicks ==
    [][ /\ (lpc = "setattr" /\ lpc' = "read") => C12_Consumed(remaining') = 0
        /\ C12_NonProductiveRead =>
              /\ remaining' = remaining - TIMEOUT_DS
              /\ C12_Consumed(remaining') = C12_Consumed(remaining) + 1
              /\ C12_Consumed(remaining') <= C12_Ticks
              /\ result' = None
              /\ lpc' = IF C12_Consumed(remaining') = C12_Ticks
                        THEN "restore_fl" ELSE "read" ]_vars

\* The modem was sent nothing and sent nothing, and listen has left its loop
\* after ceil(T * 10 / TIMEOUT_DS) ticks with None.
C12_Witness ==
    /\ lpc = "restore_fl"
    /\ wire = <<>>
    /\ noise = 0
    /\ lexc = ""
    /\ result = None
    /\ C12_Consumed(remaining) = C12_Ticks
    /\ C12_Ticks = 10

\* C13: every listen that was started comes to its end, whatever the modem
\* sends or does not send.
C13_ListenTerminates == (lpc = "open") ~> (lpc = "done")

\* The positions of the calling flow inside make_command.
C14_InCall == {"send", "write", "result", "exit"}

\* C14: a listening task is started only by make_command, one for each
\* call and only when none exists; it exists only while the calling flow
\* is inside make_command; and make_command returns or raises only when the
\* task has finished.
C14_OneListenerPerCall ==
    [][ /\ lpc # "idle" => mpc \in C14_InCall
        /\ lpc' # "idle" => mpc' \in C14_InCall
        /\ (mpc \notin C14_InCall /\ mpc' \in C14_InCall) =>
              (lpc = "idle" /\ lpc' = "open")
        /\ (lpc # "open" /\ lpc' = "open") =>
              (lpc = "idle" /\ mpc = "call" /\ mpc' = "send")
        /\ (mpc \in C14_InCall /\ mpc' \notin C14_InCall) =>
              (lpc = "done" /\ lpc' = "idle") ]_vars

\* send raised after listen had configured the descriptor, and the
\* exception has left make_command with the listening task over.
C14_Witness ==
    /\ pc = "end"
    /\ exit_code = 2
    /\ Last(shown) = "OSError"
    /\ trip # NoTrip
    /\ trip.configured
    /\ tio = trip.tio0
    /\ wire = <<>>
    /\ lpc = "idle"

\* The next step of the calling flow can append to the transcript.
C15_CallerCanWrite == ENABLED (send_append /\ log' # log)

\* The next step of the listening task can append to the transcript.
C15_ListenerCanWrite == ENABLED (listen_read /\ log' # log)

\* C15: in no state can both flows of control append to the transcript as
\* their next step.
C15_NoConcurrentWriters == ~(C15_CallerCanWrite /\ C15_ListenerCanWrite)

\* listen has ended with the exception of open or of __configure.
C16_ListenFailedEarly == lpc = "done" /\ lexc # "" /\ ~trip.configured

\* C16: once listen has failed to open or to configure the device, nothing
\* is written to the device any more, and the run ends with that error.
C16_FailedListenStopsAll ==
    [][ C16_ListenFailedEarly =>
          /\ wire' = wire
          /\ pc' = "end" => (exit_code' = 2 /\ Last(shown') = lexc) ]_vars

\* C17: the read loop is entered only when __configure has completed; it
\* is left only into __deconfigure, whether with a line, with no tick left
\* or with an exception; __deconfigure is entered from the read loop only,
\* and from it listen only goes on to its end: one __deconfigure for each
\* completed __configure.
C17_RestoreOncePerConfigure ==
    [][ /\ (lpc # "read" /\ lpc' = "read") =>
              (lpc = "setattr" /\ ~trip.configured /\ trip'.configured)
        /\ (lpc = "read" /\ lpc' # "read") =>
              /\ lpc' = "restore_fl"
              /\ \/ result'.some /\ lexc' = ""
                 \/ ~result'.some /\ lexc' = "" /\ remaining' <= 0
                 \/ ~result'.some /\ lexc' \in {"OSError", "UnicodeDecodeError"}
        /\ (lpc # "restore_fl" /\ lpc' = "restore_fl") =>
              (lpc = "read" /\ trip.configured)
        /\ (lpc = "restore_fl" /\ lpc' # lpc) => lpc' \in {"restore_attr", "done"}
        /\ (lpc = "restore_attr" /\ lpc' # lpc) => lpc' = "done"
        /\ (lpc = "done" /\ lpc' # lpc) => lpc' = "idle"
        /\ (lpc \in {"open", "configure", "setattr"} /\ lpc' = "done") =>
              (~trip.configured /\ lexc' # "") ]_vars

\* listen is in __deconfigure because decode raised.
C17_Witness ==
    /\ lpc = "restore_attr"
    /\ trip.configured
    /\ lexc = "UnicodeDecodeError"
    /\ result = None

\* The values of remaining with which the loop reads.
C18_Budgets == {k * TIMEOUT_DS : k \in 1..C12_Ticks}

\* C18: a read of the loop that gives a line whose decoded, stripped text
\* is not empty makes that text the result and consumes no tick, and every
\* other read (nothing, or a blank line) consumes exactly one tick and gives
\* no result; the loop reads only while it has ticks and no result, the
\* first result ends it and is entered in the transcript, and it is the
\* value that listen, and make_command, return.  The body of the loop is
\* looked at, for every budget and every line, whenever a listen enters its
\* loop; the steps of the loop are looked at as they are taken.
C18_FirstLineReturned ==
    [][ /\ (lpc = "setattr" /\ lpc' = "read") =>
              /\ remaining' \in C18_Budgets
              /\ \A rem \in C18_Budgets : \A l \in DeviceLines \cup {<<>>} :
                    LET text == Decode(l)
                        after == read_line(rem, l)
                    IN  text.ok =>
                          IF Strip(text.text) # <<>>
                          THEN /\ after.result = Some(Strip(text.text))
                               /\ after.remaining = rem
                          ELSE /\ after.result = None
                               /\ after.remaining = rem - TIMEOUT_DS
        /\ (lpc = "read" /\ (lpc' # lpc \/ remaining' # remaining)) =>
              /\ result = None
              /\ remaining \in C18_Budgets
              /\ lpc' = "read" => (result' = None /\ remaining' = remaining - TIMEOUT_DS)
        /\ (result = None /\ result' # None) =>
              /\ lpc = "read"
              /\ lpc' = "restore_fl"
              /\ result'.v # <<>>
              /\ Strip(result'.v) = result'.v
              /\ log' = Append(log, S_IN \o result'.v)
        /\ result # None => (result' = result \/ (lpc = "done" /\ lpc' = "idle"))
        /\ (mpc = "result" /\ mpc' = "returned") => ret' = result ]_vars

\* In the first listen of the run a blank line was read, and then "OK",
\* which is the result.
C18_Witness ==
    /\ rets = <<>>
    /\ lpc = "restore_fl"
    /\ wire # <<>>
    /\ ~owed
    /\ noise = 1
    /\ result = Some(S_OK)
    /\ Last(log) = S_IN \o S_OK

\* How many entries of a transcript are outgoing, and how many incoming.
C19_Outgoing(entries) == Cardinality({i \in DOMAIN entries : IsOutgoing(entries[i])})
C19_Incoming(entries) == Cardinality({i \in DOMAIN entries : IsIncoming(entries[i])})

\* C19: every step leaves the transcript as it is or appends one entry to
\* it; a make_command call that returns has added exactly one outgoing
\* entry, and one incoming entry when it returns a line and none when it
\* returns None; and while no make_command call is in progress the
\* transcript has no more incoming than outgoing entries.
C19_TranscriptGrows ==
    [][ /\ \/ log' = log
           \/ /\ Len(log') = Len(log) + 1
              /\ SubSeq(log', 1, Len(log)) = log
              /\ IsOutgoing(Last(log')) # IsIncoming(Last(log'))
        /\ (mpc = "result" /\ mpc' = "returned") =>
              /\ C19_Outgoing(TripEntries) = 1
              /\ C19_Incoming(TripEntries) = (IF ret'.some THEN 1 ELSE 0)
              /\ Len(TripEntries) = 1 + (IF ret'.some THEN 1 ELSE 0)
              /\ ret'.some => \E i \in DOMAIN TripEntries : TripEntries[i] = S_IN \o ret'.v
        /\ mpc' \notin C14_InCall => C19_Incoming(log') <= C19_Outgoing(log') ]_vars

\* Two calls have returned, the first None and the second a line: two
\* outgoing entries and one incoming.
C19_Witness ==
    /\ Len(rets) = 2
    /\ rets[1].ret = None
    /\ rets[2].ret = Some(S_OK)
    /\ mpc = "returned"
    /\ Len(log) = 3
    /\ C19_Outgoing(log) = 2
    /\ C19_Incoming(log) = 1

\* The receiver was selected: the modem answered ">" to AT+CMGS.
C20_ReceiverSelected ==
    \E i \in DOMAIN rets : rets[i] = [site |-> "receiver", ret |-> Some(S_PROMPT)]

\* The commands written to the device that end with Ctrl-Z.
C20_CtrlZ == {i \in DOMAIN wire : Len(wire[i]) >= 3 /\ wire[i][Len(wire[i]) - 2] = "SUB"}

\* The exceptions of the device that make_command lets through.
C20_DeviceErrors == {"OSError", "termios.error", "UnicodeDecodeError"}

\* C20: whatever the content, the empty one included, when the receiver was
\* selected and the device raised no error, send_message returns true or
\* false, so that the run ends with exit status 0 or 1, and it has sent at
\* most one command that ends with Ctrl-Z, exactly one when it came to the
\* last line.
C20_ContentAlwaysSent ==
    (C20_ReceiverSelected /\ pc = "end" /\ Last(shown) \notin C20_DeviceErrors) =>
        /\ exit_code \in {0, 1}
        /\ Cardinality(C20_CtrlZ) <= 1
        /\ Last(rets).site = "last" => Cardinality(C20_CtrlZ) = 1

====
